---- MODULE Spec2Model ----
(***************************************************************************)
(* Model of autodist's parameter-server synchronizer                       *)
(* (autodist/kernel/synchronization/ps_synchronizer.py).                   *)
(*                                                                         *)
(* Part 1 (Spec, SpecFair): the run time of the graph that PSSynchronizer  *)
(* rewrites. Every worker executes, step after step, the operations its    *)
(* finish_op depends on; the operations and their dependencies are those   *)
(* built by _get_queue_ops, add_sync_op, _get_accumulation_ops and         *)
(* _get_aggregated_sparse_grad.                                            *)
(*                                                                         *)
(* Part 2 (SpecAssign): PSGradientTaskAssigner over a small operation      *)
(* graph.                                                                  *)
(***************************************************************************)
EXTENDS Integers, Sequences, FiniteSets, TLC

\* ------------------------------------------------------------------------
\* Bounds of the model
\* ------------------------------------------------------------------------
NumWorkers == 2
NumReplicas == 2
MaxStep == 3
NumOps == 4
NumTasks == 2
NumValues == 3
NumConsumers == 1
NumSlots == 2

\* FIFOQueue(1, ...): the capacity of every update_sync_queue
QueueCapacity == 1

Workers == 0 .. (NumWorkers - 1)
Replicas == 0 .. (NumReplicas - 1)

VARIABLES
    graph,          \* graph[w]: the rewritten graph of worker w, a set of nodes
    fetched,        \* fetched[w]: the operations a step of w runs
    is_trainable,   \* var_op in graph_item.trainable_vars
    is_sparse,      \* the gradient is an IndexedSlices (only when trainable)
    step,           \* step[w]: the steps worker w has completed
    executed,       \* executed[w]: the operations w has run in its current step
    queue,          \* queue[i]: update_sync_queue_i, a sequence of tokens
    accum,          \* the between-worker accumulator: contributions applied, not yet taken
    local_accum,    \* local_accum[w]: w's in-graph sparse accumulator
    nUpdate,        \* nUpdate[w]: executions of var_update_op by w
    nTake,          \* completed takes of the between-worker accumulator
    nEnq,           \* nEnq[w][i]: tokens worker w enqueued into queue i
    nDeq,           \* nDeq[w][i]: tokens worker w dequeued from queue i
    lastTake,       \* the contributions the last between-worker take combined
    lastLocalTake,  \* lastLocalTake[w]: those of w's last in-graph take
    lastDeq         \* lastDeq[w]: the token w dequeued last

barrierVars == <<graph, fetched, is_trainable, is_sparse, step, executed, queue, accum, local_accum,
                 nUpdate, nTake, nEnq, nDeq, lastTake, lastLocalTake, lastDeq>>

VARIABLES
    inputs,                     \* inputs[op]: the operations producing op's input tensors
    agg_grad_ops,               \* self._agg_grad_ops
    apply_grad_ops,             \* self._apply_grad_ops
    ps_device,                  \* self._ps_device
    op_to_task,                 \* self._op_to_task
    device,                     \* device[op]: the device of op
    apply_grad_ancestor_ops,    \* self._apply_grad_ancestor_ops
    agg_grad_descendant_ops,    \* self._agg_grad_descendant_ops
    ancestors_diff_descendants, \* self._ancestors_diff_descendants
    fn_on_end_ops,              \* whether traverse hands its end ops to neighbors_fn
    pc,                         \* "idle", "forward", "backward", "done" or "error"
    worklist,                   \* the queue of traverse
    seed,                       \* op_to_task and device as assign() found them
    last,                       \* the last call of __assign_task: op, unique tasks, task
    refs_of,                    \* refs_of[op]: the references op's task was resolved from
    requeued                    \* the operations a neighbors_fn has re-added to the queue

assignVars == <<inputs, agg_grad_ops, apply_grad_ops, ps_device, op_to_task, device,
                apply_grad_ancestor_ops, agg_grad_descendant_ops,
                ancestors_diff_descendants, fn_on_end_ops, pc, worklist, seed, last,
                refs_of, requeued>>

VARIABLES
    gradient,               \* the kind of the gradient object: "Tensor", "IndexedSlices", "Other"
    target_trainable,       \* target.op is in the collection TRAINABLE_VARIABLES
    consumer_inputs,        \* consumer_inputs[c]: the tensors operation c reads
    control_inputs,         \* control_inputs[c]: the operations c control-depends on
    update_inputs,          \* the tensors var_update_op reads
    update_control_inputs,  \* var_update_op.control_inputs
    call,                   \* the method called and its arguments, "none" before the call
    raised,                 \* the exception the call raised, "none" when it returned
    accumulators,           \* the accumulators the call created
    logged,                 \* the call logged the non-trainable diagnostic
    op_deps,                \* op_deps[op]: the dependencies of the operations the call created
    cc_used,                \* the control-consumer lists handed to _update_gradient_consumers
    agg_grad                \* the aggregated gradient the call built

rewriteVars == <<gradient, target_trainable, consumer_inputs, control_inputs, update_inputs,
                 update_control_inputs, call, raised, accumulators, logged, op_deps,
                 cc_used, agg_grad>>

\* The pass of between_graph_apply over the variables of the graph
VARIABLES
    trainable_values,    \* the variables in the collection TRAINABLE_VARIABLES
    pass_sync,           \* self._sync
    values_done,         \* the variables between_graph_apply has returned for
    var_op_to_agg_grad,  \* self._var_op_to_agg_grad: the variables it has an entry for
    assigner_calls       \* the calls of _place_post_grad_agg_ops, in order

passVars == <<trainable_values, pass_sync, values_done, var_op_to_agg_grad, assigner_calls>>

vars == <<barrierVars, assignVars, rewriteVars, passVars>>

\* No rewrite is in progress
RewriteIdle ==
    /\ gradient = "none"
    /\ target_trainable = FALSE
    /\ consumer_inputs = <<>>
    /\ control_inputs = <<>>
    /\ update_inputs = {}
    /\ update_control_inputs = {}
    /\ call = <<>>
    /\ raised = "none"
    /\ accumulators = {}
    /\ logged = FALSE
    /\ op_deps = {}
    /\ cc_used = <<>>
    /\ agg_grad = <<>>

PassIdle ==
    /\ trainable_values = {}
    /\ pass_sync = FALSE
    /\ values_done = {}
    /\ var_op_to_agg_grad = {}
    /\ assigner_calls = <<>>

\* ------------------------------------------------------------------------
\* The operations of one worker's graph
\* ------------------------------------------------------------------------
Op(kind, idx) == [kind |-> kind, idx |-> idx]

VarUpdateOp == Op("var_update_op", 0)
AccumApplyOp == Op("accum_apply_op", 0)
TakeGradOp == Op("take_grad", 0)
FinishOp == Op("finish_op", 0)
Enqueue(i) == Op("enqueue", i)
NoOp(i) == Op("no_op", i)
Dequeue(i) == Op("dequeue", i)
LocalApply(r) == Op("local_accum_apply", r)
LocalTakeOp == Op("local_take_grad", 0)

Node(op, deps) == [op |-> op, deps |-> deps]

IsChief(worker_id) == worker_id = 0

\* Mutant: the chief's queue ops do not wait for var_update_op
VarUpdateDepsNoUpdate(trainable) ==
    IF trainable THEN {AccumApplyOp} ELSE {}

\* _get_queue_ops: var_update_deps
VarUpdateDeps(trainable) ==
    IF trainable THEN {AccumApplyOp, VarUpdateOp} ELSE {VarUpdateOp}

\* Mutant: the chief enqueues into every queue, its own included
ChiefQueueOpOwnSlot(worker_id, i) ==
    Enqueue(i)

\* _get_queue_ops, the chief's branch: one queue op per queue i
ChiefQueueOp(worker_id, i) ==
    IF i # worker_id THEN Enqueue(i) ELSE NoOp(i)

\* Mutant: the non-chief's dequeue waits for var_update_deps like the
\* chief's enqueues
DequeueDepsUpdate(trainable) ==
    VarUpdateDeps(trainable)

\* _get_queue_ops, the non-chief's branch: what the dequeue waits for
DequeueDeps(trainable) ==
    IF trainable THEN {AccumApplyOp} ELSE {}

\* Mutant: every non-chief dequeues the chief's queue
GetQueueOpsWrongQueue(worker_id, is_chief, trainable) ==
    IF is_chief
    THEN { Node(ChiefQueueOp(worker_id, i), VarUpdateDeps(trainable)) : i \in Workers }
    ELSE { Node(Dequeue(0), DequeueDeps(trainable)) }

\* Mutant: a non-chief waits for no token
GetQueueOpsNoDequeue(worker_id, is_chief, trainable) ==
    IF is_chief
    THEN { Node(ChiefQueueOp(worker_id, i), VarUpdateDeps(trainable)) : i \in Workers }
    ELSE { Node(NoOp(worker_id), DequeueDeps(trainable)) }

\* _get_queue_ops: the nodes it adds to the graph of worker_id
GetQueueOps(worker_id, is_chief, trainable) ==
    IF is_chief
    THEN { Node(ChiefQueueOp(worker_id, i), VarUpdateDeps(trainable)) : i \in Workers }
    ELSE { Node(Dequeue(worker_id), DequeueDeps(trainable)) }

\* add_sync_op: finish_op = group(*queue_ops)
FinishNode(worker_id, trainable) ==
    Node(FinishOp, { n.op : n \in GetQueueOps(worker_id, IsChief(worker_id), trainable) })

\* _get_aggregated_sparse_grad: num_replicas applies, then the take under
\* control_dependencies(accum_apply_ops)
SparseAggNodes ==
    { Node(LocalApply(r), {}) : r \in Replicas }
    \cup { Node(LocalTakeOp, { LocalApply(r) : r \in Replicas }) }

\* Mutant: the consumers of the gradient are not rewired to take_grad
AccumulationNodesNotRewired(trainable, sparse) ==
    IF ~trainable
    THEN { Node(VarUpdateOp, {}) }
    ELSE { Node(AccumApplyOp, IF sparse THEN {LocalTakeOp} ELSE {}),
           Node(TakeGradOp, {}),
           Node(VarUpdateOp, {}) }
         \cup (IF sparse THEN SparseAggNodes ELSE {})

\* _get_accumulation_ops: accum_apply_op consumes the gradient, take_grad is
\* the aggregated gradient and replaces the gradient in its consumers (the
\* update operation)
AccumulationNodes(trainable, sparse) ==
    IF ~trainable
    THEN { Node(VarUpdateOp, {}) }
    ELSE { Node(AccumApplyOp, IF sparse THEN {LocalTakeOp} ELSE {}),
           Node(TakeGradOp, {}),
           Node(VarUpdateOp, {TakeGradOp}) }
         \cup (IF sparse THEN SparseAggNodes ELSE {})

\* The rewritten graph of worker_id
Graph(worker_id, trainable, sparse) ==
    AccumulationNodes(trainable, sparse)
    \cup GetQueueOps(worker_id, IsChief(worker_id), trainable)
    \cup { FinishNode(worker_id, trainable) }

DepsOf(g, op) == (CHOOSE n \in g : n.op = op).deps

RECURSIVE Closure(_, _)
Closure(g, ops) ==
    LET more == ops \cup UNION { DepsOf(g, o) : o \in ops }
    IN IF more = ops THEN ops ELSE Closure(g, more)

\* What a step of worker_id runs: the operations its finish_op depends on
\* (update_control_consumers made the training operation depend on finish_op
\* in place of var_update_op)
Needed(worker_id, trainable, sparse) ==
    Closure(Graph(worker_id, trainable, sparse), {FinishOp})

\* Mutant: the take asks for one contribution fewer
NumRequiredLess == NumWorkers - 1

\* take_grad(num_workers)
NumRequired == NumWorkers

\* take_indexed_slices_grad(self.num_replicas)
NumRequiredLocal == NumReplicas

\* ------------------------------------------------------------------------
\* Execution of the rewritten graph
\* ------------------------------------------------------------------------
BarrierInit ==
    /\ is_trainable \in BOOLEAN
    /\ is_sparse \in BOOLEAN
    /\ is_sparse => is_trainable
    /\ graph = [w \in Workers |-> Graph(w, is_trainable, is_sparse)]
    /\ fetched = [w \in Workers |-> Needed(w, is_trainable, is_sparse)]
    /\ step = [w \in Workers |-> 0]
    /\ executed = [w \in Workers |-> {}]
    /\ queue = [i \in Workers |-> <<>>]
    /\ accum = {}
    /\ local_accum = [w \in Workers |-> {}]
    /\ nUpdate = [w \in Workers |-> 0]
    /\ nTake = 0
    /\ nEnq = [w \in Workers |-> [i \in Workers |-> 0]]
    /\ nDeq = [w \in Workers |-> [i \in Workers |-> 0]]
    /\ lastTake = {}
    /\ lastLocalTake = [w \in Workers |-> {}]
    /\ lastDeq = [w \in Workers |-> -1]

\* An operation of w's step can run: it is needed, has not run in this step,
\* and its inputs and control inputs have run
Ready(w, op) ==
    /\ step[w] < MaxStep
    /\ op \in fetched[w]
    /\ op \notin executed[w]
    /\ DepsOf(graph[w], op) \subseteq executed[w]

Ran(w, op) == executed' = [executed EXCEPT ![w] = @ \cup {op}]

\* grad_accum.apply_indexed_slices_grad(indexed_slices_grads[r], MAX_INT64)
ExecLocalApply(w, r) ==
    /\ Ready(w, LocalApply(r))
    /\ Ran(w, LocalApply(r))
    /\ local_accum' = [local_accum EXCEPT ![w] = @ \cup {[replica |-> r, step |-> step[w]]}]
    /\ UNCHANGED <<assignVars, rewriteVars, passVars, graph, fetched, is_trainable, is_sparse, step, queue, accum, nUpdate, nTake, nEnq,
                   nDeq, lastTake, lastLocalTake, lastDeq>>

\* grad_accum.take_indexed_slices_grad(num_replicas): blocks until that many
\* contributions are in, returns them combined and empties the accumulator
ExecLocalTake(w) ==
    /\ Ready(w, LocalTakeOp)
    /\ Cardinality(local_accum[w]) >= NumRequiredLocal
    /\ Ran(w, LocalTakeOp)
    /\ lastLocalTake' = [lastLocalTake EXCEPT ![w] = local_accum[w]]
    /\ local_accum' = [local_accum EXCEPT ![w] = {}]
    /\ UNCHANGED <<assignVars, rewriteVars, passVars, graph, fetched, is_trainable, is_sparse, step, queue, accum, nUpdate, nTake, nEnq,
                   nDeq, lastTake, lastDeq>>

\* grad_accum.apply_grad(grad, local_step=MAX_INT64): always accepted
ExecAccumApply(w) ==
    /\ Ready(w, AccumApplyOp)
    /\ Ran(w, AccumApplyOp)
    /\ accum' = accum \cup {[worker |-> w, step |-> step[w]]}
    /\ UNCHANGED <<assignVars, rewriteVars, passVars, graph, fetched, is_trainable, is_sparse, step, queue, local_accum, nUpdate, nTake,
                   nEnq, nDeq, lastTake, lastLocalTake, lastDeq>>

\* grad_accum.take_grad(num_workers)
ExecTakeGrad(w) ==
    /\ Ready(w, TakeGradOp)
    /\ Cardinality(accum) >= NumRequired
    /\ Ran(w, TakeGradOp)
    /\ lastTake' = accum
    /\ accum' = {}
    /\ nTake' = nTake + 1
    /\ UNCHANGED <<assignVars, rewriteVars, passVars, graph, fetched, is_trainable, is_sparse, step, queue, local_accum, nUpdate, nEnq,
                   nDeq, lastLocalTake, lastDeq>>

ExecVarUpdate(w) ==
    /\ Ready(w, VarUpdateOp)
    /\ Ran(w, VarUpdateOp)
    /\ nUpdate' = [nUpdate EXCEPT ![w] = @ + 1]
    /\ UNCHANGED <<assignVars, rewriteVars, passVars, graph, fetched, is_trainable, is_sparse, step, queue, accum, local_accum, nTake,
                   nEnq, nDeq, lastTake, lastLocalTake, lastDeq>>

\* q.enqueue(token): blocks while the queue is full. The token is the
\* constant False; the model tags it with the step of the worker enqueuing it.
ExecEnqueue(w, i) ==
    /\ Ready(w, Enqueue(i))
    /\ Len(queue[i]) < QueueCapacity
    /\ Ran(w, Enqueue(i))
    /\ queue' = [queue EXCEPT ![i] = Append(@, [from |-> w, step |-> step[w]])]
    /\ nEnq' = [nEnq EXCEPT ![w][i] = @ + 1]
    /\ UNCHANGED <<assignVars, rewriteVars, passVars, graph, fetched, is_trainable, is_sparse, step, accum, local_accum, nUpdate, nTake,
                   nDeq, lastTake, lastLocalTake, lastDeq>>

\* gen_control_flow_ops.no_op() in the chief's own slot
ExecNoOp(w, i) ==
    /\ Ready(w, NoOp(i))
    /\ Ran(w, NoOp(i))
    /\ UNCHANGED <<assignVars, rewriteVars, passVars, graph, fetched, is_trainable, is_sparse, step, queue, accum, local_accum, nUpdate,
                   nTake, nEnq, nDeq, lastTake, lastLocalTake, lastDeq>>

\* var_update_sync_queues[i].dequeue(): blocks while the queue is empty
ExecDequeue(w, i) ==
    /\ Ready(w, Dequeue(i))
    /\ queue[i] # <<>>
    /\ Ran(w, Dequeue(i))
    /\ queue' = [queue EXCEPT ![i] = Tail(@)]
    /\ nDeq' = [nDeq EXCEPT ![w][i] = @ + 1]
    /\ lastDeq' = [lastDeq EXCEPT ![w] = Head(queue[i]).step]
    /\ UNCHANGED <<assignVars, rewriteVars, passVars, graph, fetched, is_trainable, is_sparse, step, accum, local_accum, nUpdate, nTake,
                   nEnq, lastTake, lastLocalTake>>

\* finish_op: the done signal of w's step; the next step starts afresh
ExecFinish(w) ==
    /\ Ready(w, FinishOp)
    /\ step' = [step EXCEPT ![w] = @ + 1]
    /\ executed' = [executed EXCEPT ![w] = {}]
    /\ UNCHANGED <<assignVars, rewriteVars, passVars, graph, fetched, is_trainable, is_sparse, queue, accum, local_accum, nUpdate, nTake,
                   nEnq, nDeq, lastTake, lastLocalTake, lastDeq>>

Next ==
    \/ \E w \in Workers, r \in Replicas : ExecLocalApply(w, r)
    \/ \E w \in Workers : ExecLocalTake(w)
    \/ \E w \in Workers : ExecAccumApply(w)
    \/ \E w \in Workers : ExecTakeGrad(w)
    \/ \E w \in Workers : ExecVarUpdate(w)
    \/ \E w \in Workers, i \in Workers : ExecEnqueue(w, i)
    \/ \E w \in Workers, i \in Workers : ExecNoOp(w, i)
    \/ \E w \in Workers, i \in Workers : ExecDequeue(w, i)
    \/ \E w \in Workers : ExecFinish(w)

\* The task assigner is not running
AssignIdle ==
    /\ inputs = <<>>
    /\ agg_grad_ops = {}
    /\ apply_grad_ops = {}
    /\ ps_device = <<>>
    /\ op_to_task = <<>>
    /\ device = <<>>
    /\ apply_grad_ancestor_ops = {}
    /\ agg_grad_descendant_ops = {}
    /\ ancestors_diff_descendants = {}
    /\ fn_on_end_ops = FALSE
    /\ pc = "idle"
    /\ worklist = {}
    /\ seed = <<>>
    /\ last = <<>>
    /\ refs_of = <<>>
    /\ requeued = {}

Init == BarrierInit /\ AssignIdle /\ RewriteIdle /\ PassIdle

Spec == Init /\ [][Next]_vars

AllDone == \A w \in Workers : step[w] = MaxStep

\* ------------------------------------------------------------------------
\* PSGradientTaskAssigner
\* ------------------------------------------------------------------------
Ops == 1 .. NumOps
Tasks == 0 .. (NumTasks - 1)

\* Default value to use when marking a task as shared across devices
SHARED_TASK_ID == -1

DeviceSpec(job, task, device_type) ==
    [job |-> job, replica |-> 0, task |-> task, device_type |-> device_type,
     device_index |-> 0]

\* The acyclic graphs over n operations: the inputs of an operation are among
\* the operations before it
RECURSIVE Dags(_)
Dags(n) ==
    IF n = 0 THEN { <<>> }
    ELSE { Append(g, ins) : g \in Dags(n - 1), ins \in SUBSET (1 .. (n - 1)) }

\* get_consumers(op): the operations reading an output of op
GetConsumers(ins, op) == { c \in DOMAIN ins : op \in ins[c] }

\* traverse(start_ops, end_ops, neighbors_fn) with a neighbors_fn that
\* assigns nothing: the operations visited, the end ops not expanded
RECURSIVE Traverse(_, _, _)
Traverse(visited, end_ops, nbrs) ==
    LET more == visited \cup UNION { nbrs[x] : x \in visited \ end_ops }
    IN IF more = visited THEN visited ELSE Traverse(more, end_ops, nbrs)

\* get_ancestors(start_ops, end_ops): traverse along the inputs
GetAncestors(ins, start_ops, end_ops) ==
    Traverse(start_ops, end_ops, [x \in DOMAIN ins |-> ins[x]])

\* traverse(start_ops, end_ops): along the consumers
GetDescendants(ins, start_ops, end_ops) ==
    Traverse(start_ops, end_ops, [x \in DOMAIN ins |-> GetConsumers(ins, x)])

\* __assign_task without the priority of an assigned placement over shared
ResolveTaskKeepShared(unique_tasks) ==
    IF Cardinality(unique_tasks) = 1
    THEN CHOOSE t \in unique_tasks : TRUE
    ELSE SHARED_TASK_ID

\* __assign_task: the task recorded for the unique tasks of the references
ResolveTask(unique_tasks) ==
    IF Cardinality(unique_tasks) = 1
    THEN CHOOSE t \in unique_tasks : TRUE
    ELSE LET rest == unique_tasks \ {SHARED_TASK_ID}
         IN IF Cardinality(rest) = 1
            THEN CHOOSE t \in rest : TRUE
            ELSE SHARED_TASK_ID

\* __assign_task without the move of shared ops to task 0
DeviceTaskKeepShared(curr_op_task) == curr_op_task

\* __assign_task: shared ops go to task 0
DeviceTask(curr_op_task) ==
    IF curr_op_task = SHARED_TASK_ID THEN 0 ELSE curr_op_task

\* a device specifier built from the task alone
ReplaceTaskBare(dev, task) ==
    [job |-> "", replica |-> 0, task |-> task, device_type |-> "", device_index |-> 0]

\* self._ps_device.replace(task=curr_op_task)
ReplaceTask(dev, task) == [dev EXCEPT !.task = task]

\* PSGradientTaskAssigner.__init__ for any task map over the start ops: the
\* update ops (of resource variables) have no outputs, an operation with a
\* task is on the parameter server's device for that task
AssignInitAny ==
    /\ inputs \in Dags(NumOps)
    /\ agg_grad_ops \in SUBSET Ops
    /\ agg_grad_ops # {}
    /\ apply_grad_ops \in SUBSET (Ops \ agg_grad_ops)
    /\ apply_grad_ops # {}
    /\ \A op \in apply_grad_ops : GetConsumers(inputs, op) = {}
    /\ ps_device = DeviceSpec("ps", 0, "CPU")
    /\ \E with_task \in SUBSET (agg_grad_ops \cup apply_grad_ops) :
          op_to_task \in [with_task -> Tasks]
    /\ device = [op \in Ops |->
                    IF op \in DOMAIN op_to_task
                    THEN DeviceSpec("ps", op_to_task[op], "CPU")
                    ELSE DeviceSpec("worker", 0, "GPU")]
    /\ apply_grad_ancestor_ops = GetAncestors(inputs, apply_grad_ops, agg_grad_ops)
    /\ agg_grad_descendant_ops = GetDescendants(inputs, agg_grad_ops, apply_grad_ops)
    /\ ancestors_diff_descendants = apply_grad_ancestor_ops \ agg_grad_descendant_ops
    /\ fn_on_end_ops \in BOOLEAN
    /\ pc = "forward"
    /\ worklist = agg_grad_ops
    /\ seed = [task |-> op_to_task, device |-> device, run |-> 1]
    /\ last = [op |-> 0, tasks |-> {}, task |-> 0]
    /\ refs_of = [op \in Ops |-> {}]
    /\ requeued = {}

\* _place_post_grad_agg_ops: the task map holds the task of the variable of
\* every aggregated-gradient op and of every update op
AssignInit ==
    /\ AssignInitAny
    /\ DOMAIN op_to_task = agg_grad_ops \cup apply_grad_ops

\* The synchronized graph is not running
BarrierIdle ==
    /\ is_trainable = FALSE
    /\ is_sparse = FALSE
    /\ graph = <<>>
    /\ fetched = <<>>
    /\ step = <<>>
    /\ executed = <<>>
    /\ queue = <<>>
    /\ accum = {}
    /\ local_accum = <<>>
    /\ nUpdate = <<>>
    /\ nTake = 0
    /\ nEnq = <<>>
    /\ nDeq = <<>>
    /\ lastTake = {}
    /\ lastLocalTake = <<>>
    /\ lastDeq = <<>>

InitAssign == AssignInit /\ BarrierIdle /\ RewriteIdle /\ PassIdle


\* __assign_forward with every input as a placement reference
ForwardReferencesAllInputs(curr_op) ==
    inputs[curr_op]

\* __assign_forward: the placement references of curr_op
ForwardReferences(curr_op) ==
    inputs[curr_op] \ ancestors_diff_descendants

\* __assign_forward: the consumers it returns
ForwardNeighbors(curr_op) ==
    { consumer \in GetConsumers(inputs, curr_op) : consumer \in apply_grad_ancestor_ops }

\* __assign_backward: the placement references of curr_op
BackwardReferences(curr_op) ==
    GetConsumers(inputs, curr_op) \cap apply_grad_ancestor_ops

\* __assign_backward: the inputs it returns
BackwardNeighbors(curr_op) ==
    inputs[curr_op]

\* __assign_task without the check for an empty set of reference tasks
AssignTaskNoRaise(curr_op, placement_reference_ops) ==
    LET unique_tasks == { op_to_task[ref_op] : ref_op \in placement_reference_ops }
        curr_op_task == ResolveTask(unique_tasks)
    IN /\ pc' = pc
       /\ refs_of' = [refs_of EXCEPT ![curr_op] = placement_reference_ops]
       /\ op_to_task' = [op \in DOMAIN op_to_task \cup {curr_op} |->
                            IF op = curr_op THEN curr_op_task ELSE op_to_task[op]]
       /\ device' = [device EXCEPT ![curr_op] =
                        ReplaceTask(ps_device, DeviceTask(curr_op_task))]
       /\ last' = [op |-> curr_op, tasks |-> unique_tasks, task |-> curr_op_task]

\* __assign_task(curr_op, placement_reference_ops): raises on no reference,
\* else records the resolved task and sets the device
AssignTask(curr_op, placement_reference_ops) ==
    LET unique_tasks == { op_to_task[ref_op] : ref_op \in placement_reference_ops }
        curr_op_task == ResolveTask(unique_tasks)
    IN IF unique_tasks = {}
       THEN /\ pc' = "error"
            /\ UNCHANGED <<op_to_task, device, last, refs_of>>
       ELSE /\ pc' = pc
            /\ refs_of' = [refs_of EXCEPT ![curr_op] = placement_reference_ops]
            /\ op_to_task' = [op \in DOMAIN op_to_task \cup {curr_op} |->
                                 IF op = curr_op THEN curr_op_task ELSE op_to_task[op]]
            /\ device' = [device EXCEPT ![curr_op] =
                             ReplaceTask(ps_device, DeviceTask(curr_op_task))]
            /\ last' = [op |-> curr_op, tasks |-> unique_tasks, task |-> curr_op_task]

\* __assign_forward and __assign_backward returning nothing, instead of
\* curr_op, when a reference has no task yet
AssignVisitDropped(curr_op, end_ops, references, neighbors) ==
    IF curr_op \in DOMAIN op_to_task /\ curr_op \notin end_ops
    THEN /\ worklist' = (worklist \ {curr_op}) \cup neighbors
         /\ UNCHANGED <<op_to_task, device, last, refs_of, requeued, pc>>
    ELSE IF ~(\A ref_op \in references : ref_op \in DOMAIN op_to_task)
    THEN /\ worklist' = worklist \ {curr_op}
         /\ requeued' = requeued \cup {curr_op}
         /\ UNCHANGED <<op_to_task, device, last, refs_of, pc>>
    ELSE /\ AssignTask(curr_op, references)
         /\ worklist' = (worklist \ {curr_op})
                            \cup (IF curr_op \notin end_ops THEN neighbors ELSE {})
         /\ UNCHANGED requeued

\* __assign_forward and __assign_backward as the neighbors_fn of traverse:
\* curr_op is popped, what the function returns is put on the queue
AssignVisit(curr_op, end_ops, references, neighbors) ==
    IF curr_op \in DOMAIN op_to_task /\ curr_op \notin end_ops
    THEN /\ worklist' = (worklist \ {curr_op}) \cup neighbors
         /\ UNCHANGED <<op_to_task, device, last, refs_of, requeued, pc>>
    ELSE IF ~(\A ref_op \in references : ref_op \in DOMAIN op_to_task)
    THEN \* re-add curr_op to the queue and wait for the references
         /\ worklist' = (worklist \ {curr_op}) \cup {curr_op}
         /\ requeued' = requeued \cup {curr_op}
         /\ UNCHANGED <<op_to_task, device, last, refs_of, pc>>
    ELSE /\ AssignTask(curr_op, references)
         /\ worklist' = (worklist \ {curr_op})
                            \cup (IF curr_op \notin end_ops THEN neighbors ELSE {})
         /\ UNCHANGED requeued

\* traverse: pop an operation; an end op is not expanded
TraversePop(curr_op, end_ops, references, neighbors) ==
    /\ curr_op \in worklist
    /\ IF curr_op \in end_ops /\ ~fn_on_end_ops
       THEN /\ worklist' = worklist \ {curr_op}
            /\ UNCHANGED <<op_to_task, device, last, refs_of, requeued, pc>>
       ELSE AssignVisit(curr_op, end_ops, references, neighbors)
    /\ UNCHANGED <<barrierVars, rewriteVars, passVars, inputs, agg_grad_ops, apply_grad_ops, ps_device,
                   apply_grad_ancestor_ops, agg_grad_descendant_ops,
                   ancestors_diff_descendants, fn_on_end_ops, seed>>

\* assign(): the parent-to-child traversal
AssignForward(curr_op) ==
    /\ pc = "forward"
    /\ TraversePop(curr_op, apply_grad_ops, ForwardReferences(curr_op),
                   ForwardNeighbors(curr_op))

\* assign(): the first traversal is over, the child-to-parent one starts
StartBackward ==
    /\ pc = "forward"
    /\ worklist = {}
    /\ pc' = "backward"
    /\ worklist' = apply_grad_ops
    /\ UNCHANGED <<barrierVars, rewriteVars, passVars, inputs, agg_grad_ops, apply_grad_ops, ps_device,
                   op_to_task, device, apply_grad_ancestor_ops,
                   agg_grad_descendant_ops, ancestors_diff_descendants,
                   fn_on_end_ops, seed, last, refs_of, requeued>>

\* assign(): the child-to-parent traversal
AssignBackward(curr_op) ==
    /\ pc = "backward"
    /\ TraversePop(curr_op, agg_grad_ops, BackwardReferences(curr_op),
                   BackwardNeighbors(curr_op))

\* assign() returns
AssignReturn ==
    /\ pc = "backward"
    /\ worklist = {}
    /\ pc' = "done"
    /\ UNCHANGED <<barrierVars, rewriteVars, passVars, inputs, agg_grad_ops, apply_grad_ops, ps_device,
                   op_to_task, device, apply_grad_ancestor_ops,
                   agg_grad_descendant_ops, ancestors_diff_descendants,
                   fn_on_end_ops, worklist, seed, last, refs_of,
                   requeued>>

\* Every operation the two traversals visit has a task
AllAssigned ==
    \A op \in apply_grad_ancestor_ops \cup agg_grad_ops \cup apply_grad_ops :
        op \in DOMAIN op_to_task

\* assign() is run again on the graph that the first run left
AssignAgain ==
    /\ pc = "done"
    /\ seed.run = 1
    /\ AllAssigned
    /\ pc' = "forward"
    /\ worklist' = agg_grad_ops
    /\ seed' = [task |-> op_to_task, device |-> device, run |-> 2]
    /\ last' = [op |-> 0, tasks |-> {}, task |-> 0]
    /\ refs_of' = [op \in Ops |-> {}]
    /\ requeued' = {}
    /\ UNCHANGED <<barrierVars, rewriteVars, passVars, inputs, agg_grad_ops, apply_grad_ops, ps_device,
                   op_to_task, device, apply_grad_ancestor_ops,
                   agg_grad_descendant_ops, ancestors_diff_descendants,
                   fn_on_end_ops>>

NextAssign ==
    \/ \E curr_op \in Ops : AssignForward(curr_op)
    \/ StartBackward
    \/ \E curr_op \in Ops : AssignBackward(curr_op)
    \/ AssignReturn
    \/ AssignAgain

SpecAssign == InitAssign /\ [][NextAssign]_vars

\* The assigner constructed over any task map
InitAssignAny == AssignInitAny /\ BarrierIdle /\ RewriteIdle /\ PassIdle

SpecAssignAny == InitAssignAny /\ [][NextAssign]_vars

\* The loop of traverse keeps popping, and an operation that is on the queue
\* is popped in the end: a visit that changes the state is not put off forever
FairnessAssign == WF_vars(NextAssign)

SpecAssignFair == SpecAssign /\ FairnessAssign

\* Fair scheduling: the runtime of a worker runs an operation that is ready.
\* Weak fairness of every single operation implies this weaker condition, that
\* some ready operation runs.
Fairness == WF_vars(Next)

SpecFair == Spec /\ Fairness

NonChiefs == Workers \ {0}

Bit(b) == IF b THEN 1 ELSE 0

\* ------------------------------------------------------------------------
\* Claims about the barrier
\* ------------------------------------------------------------------------

\* C1: the k-th dequeue of a non-chief worker w on its own queue (its done
\* signal of step k) completes only after the chief's k-th execution of the
\* update operation, and for a trainable value only after the k-th take of
\* the accumulator: at no time has w dequeued more tokens than the chief has
\* made updates (takes), nor finished more steps.
C1_DoneAfterChiefUpdate ==
    \A w \in NonChiefs :
        /\ nDeq[w][w] <= nUpdate[0]
        /\ step[w] <= nDeq[w][w]
        /\ is_trainable => nDeq[w][w] <= nTake

C1_Witness ==
    /\ is_trainable
    /\ \E w \in NonChiefs : nDeq[w][w] = 2 /\ nUpdate[0] = 2 /\ nTake = 2

\* C2: the update operation runs once per step and on the chief only: no
\* non-chief ever executes it or has it among the operations its done signal
\* requires, and the chief has executed it once in every step it completed
\* (and once more if it has run in the current step).
C2_UpdatedOnceByChief ==
    /\ \A w \in NonChiefs : nUpdate[w] = 0 /\ VarUpdateOp \notin fetched[w]
    /\ nUpdate[0] = step[0] + Bit(VarUpdateOp \in executed[0])

C2_Witness ==
    /\ AllDone
    /\ nUpdate[0] = MaxStep
    /\ \A w \in NonChiefs : nUpdate[w] = 0

\* C3 as stated: for every synchronized value, trainable or not, the chief
\* does not execute the update of step k+1 until every non-chief has dequeued
\* the token of step k.
C3_ChiefWaitsForDequeue ==
    \A w \in NonChiefs : nUpdate[0] <= nDeq[w][w] + 1

\* C3 amended: for a trainable value the chief does not execute the update of
\* step k+1 until every non-chief has dequeued the token of step k; for a
\* non-trainable value it does not execute the update of step k+2 until every
\* non-chief has dequeued the token of step k (it may run one step ahead).
C3_ChiefWaitsAmended ==
    \A w \in NonChiefs :
        /\ is_trainable => nUpdate[0] <= nDeq[w][w] + 1
        /\ ~is_trainable => nUpdate[0] <= nDeq[w][w] + 2

C3_Witness ==
    \/ /\ is_trainable
       /\ nUpdate[0] = 2
       /\ \A w \in NonChiefs : nDeq[w][w] = 1
    \/ /\ ~is_trainable
       /\ nUpdate[0] = 2
       /\ \E w \in NonChiefs : nDeq[w][w] = 0

\* C4: token accounting. Only the chief enqueues, never into its own queue;
\* a non-chief dequeues from its own queue only; in every step the chief
\* enqueues one token per non-chief and each non-chief dequeues one; the
\* tokens enqueued for a worker minus those it dequeued are the queue's
\* content, 0 or 1; and the token in a worker's queue, like the one it
\* dequeued last, is the token of the step the worker is in.
C4_TokenAccounting ==
    /\ \A w \in Workers, i \in Workers :
          /\ (w # 0 \/ i = 0) => nEnq[w][i] = 0
          /\ (w = 0 \/ i # w) => nDeq[w][i] = 0
    /\ Len(queue[0]) = 0
    /\ \A w \in NonChiefs :
          /\ nEnq[0][w] = step[0] + Bit(Enqueue(w) \in executed[0])
          /\ nDeq[w][w] = step[w] + Bit(Dequeue(w) \in executed[w])
          /\ nEnq[0][w] - nDeq[w][w] = Len(queue[w])
          /\ Len(queue[w]) \in {0, 1}
          /\ \A k \in 1 .. Len(queue[w]) : queue[w][k].step = nDeq[w][w]
          /\ nDeq[w][w] > 0 => lastDeq[w] = nDeq[w][w] - 1

C4_Witness ==
    \E w \in NonChiefs :
        /\ Len(queue[w]) = 1
        /\ nEnq[0][w] = 2
        /\ nDeq[w][w] = 1
        /\ lastDeq[w] = 0

\* C5: under fair scheduling the barrier runs to completion: every worker
\* finishes every step; once the chief has made the update of step k every
\* non-chief eventually dequeues the token of step k, and every enqueue of
\* step k eventually completes. No reachable state is a deadlock: the only
\* fairness assumed is that some enabled operation runs, so a reachable state
\* short of completion with nothing enabled would be a behaviour that never
\* completes.
C5_BarrierCompletes ==
    /\ <>(AllDone /\ \A w \in NonChiefs :
                        nDeq[w][w] = MaxStep /\ nEnq[0][w] = MaxStep)
    /\ \A w \in NonChiefs, k \in 1 .. MaxStep :
          (nUpdate[0] >= k) ~> (nDeq[w][w] >= k /\ nEnq[0][w] >= k)

C5_Witness ==
    /\ AllDone
    /\ \A w \in NonChiefs : nDeq[w][w] = MaxStep /\ nEnq[0][w] = MaxStep

\* C6: a take releases the aggregated gradient only on the required number of
\* contributions: a completed between-worker take combined exactly
\* num_workers applies, a completed in-graph sparse take combined exactly one
\* apply of every replica.
C6_TakeOnlyWhenFull ==
    /\ \A w \in Workers :
          TakeGradOp \in executed[w] => Cardinality(lastTake) = NumWorkers
    /\ nTake > 0 => Cardinality(lastTake) = NumWorkers
    /\ \A w \in Workers :
          LocalTakeOp \in executed[w] =>
              /\ Cardinality(lastLocalTake[w]) = NumReplicas
              /\ { c.replica : c \in lastLocalTake[w] } = Replicas

C6_Witness ==
    /\ is_sparse
    /\ nTake = 2
    /\ Cardinality(lastTake) = NumWorkers
    /\ \E w \in NonChiefs : LocalTakeOp \in executed[w]

\* ------------------------------------------------------------------------
\* Claims about the task assigner
\* ------------------------------------------------------------------------
Between == agg_grad_descendant_ops \cap apply_grad_ancestor_ops

\* C7: no operation is left on the SHARED sentinel: the device of every
\* operation carries a concrete task, an operation whose recorded task is
\* SHARED is on task 0, and when assign() has returned every aggregation and
\* every update operation is on a concrete task.
C7_NoSharedLeft ==
    pc \in {"forward", "backward", "done"} =>
        /\ \A op \in Ops : device[op].task \in Tasks
        /\ \A op \in DOMAIN op_to_task :
              op_to_task[op] = SHARED_TASK_ID => device[op].task = 0
        /\ pc = "done" =>
              \A op \in agg_grad_ops \cup apply_grad_ops :
                  /\ op \in DOMAIN op_to_task
                  /\ device[op].task # SHARED_TASK_ID

C7_Witness ==
    /\ pc = "done"
    /\ \E op \in DOMAIN op_to_task :
          /\ op_to_task[op] = SHARED_TASK_ID
          /\ refs_of[op] # {}
          /\ device[op] = DeviceSpec("ps", 0, "CPU")

\* C8: an operation visited while one of its placement references had no
\* task is back on the queue for as long as it has no task itself, and when
\* assign() has returned every operation that is a descendant of an
\* aggregation op and an ancestor of an update op has a task.
C8_BetweenAssigned ==
    /\ pc \in {"forward", "backward"} =>
          \A op \in requeued : op \in DOMAIN op_to_task \/ op \in worklist
    /\ pc = "done" =>
          \A op \in Between \cup requeued : op \in DOMAIN op_to_task

C8_Witness ==
    /\ pc = "done"
    /\ \E op \in Between \cap requeued :
          /\ op \notin DOMAIN seed.task
          /\ op \in DOMAIN op_to_task

\* C9: the task recorded by a call of __assign_task with reference tasks R:
\* the element of R when R has one element, the concrete task when R is the
\* sentinel and one concrete task, SHARED when R holds two or more concrete
\* tasks, with or without the sentinel.
C9_ResolutionRule ==
    last.op # 0 =>
        LET R == last.tasks
            concrete == R \ {SHARED_TASK_ID}
        IN /\ op_to_task[last.op] = last.task
           /\ Cardinality(R) = 1 => last.task \in R
           /\ (SHARED_TASK_ID \in R /\ Cardinality(concrete) = 1) => last.task \in concrete
           /\ Cardinality(concrete) >= 2 => last.task = SHARED_TASK_ID

C9_Witness ==
    /\ last.op # 0
    /\ SHARED_TASK_ID \in last.tasks
    /\ Cardinality(last.tasks) = 2
    /\ last.task = 1

\* The run of assign() that visits the operations in the order of their
\* numbers (forward) and in the reverse order (backward)
CanonVisit(o2t, op, end_ops, references) ==
    IF op \in DOMAIN o2t /\ op \notin end_ops THEN o2t
    ELSE IF op \in end_ops /\ ~fn_on_end_ops THEN o2t
    ELSE IF references = {} \/ ~(references \subseteq DOMAIN o2t) THEN o2t
    ELSE [x \in DOMAIN o2t \cup {op} |->
             IF x = op THEN ResolveTask({ o2t[r] : r \in references }) ELSE o2t[x]]

ForwardVisited ==
    Traverse(agg_grad_ops, apply_grad_ops, [x \in Ops |-> ForwardNeighbors(x)])

RECURSIVE CanonForward(_, _)
CanonForward(o2t, op) ==
    IF op > NumOps THEN o2t
    ELSE CanonForward(IF op \in ForwardVisited
                      THEN CanonVisit(o2t, op, apply_grad_ops, ForwardReferences(op))
                      ELSE o2t,
                      op + 1)

RECURSIVE CanonBackward(_, _)
CanonBackward(o2t, op) ==
    IF op < 1 THEN o2t
    ELSE CanonBackward(IF op \in apply_grad_ancestor_ops
                       THEN CanonVisit(o2t, op, agg_grad_ops, BackwardReferences(op))
                       ELSE o2t,
                       op - 1)

CanonResult == CanonBackward(CanonForward(seed.task, 1), NumOps)

\* C10 as stated: the result of assign() does not depend on the order in
\* which the queue is popped: whatever the order, the task map and the
\* devices are those of the run in the order of the operations' numbers; an
\* operation resolved from a single reference is on that reference's task and
\* one resolved from references on two distinct concrete tasks is on task 0.
C10_Deterministic ==
    pc = "done" =>
        /\ op_to_task = CanonResult
        /\ \A op \in Ops :
              device[op] = IF refs_of[op] # {}
                           THEN ReplaceTask(ps_device, DeviceTask(CanonResult[op]))
                           ELSE seed.device[op]
        /\ \A op \in Ops :
              LET tasks == { op_to_task[r] : r \in refs_of[op] }
              IN /\ Cardinality(refs_of[op]) = 1 => tasks = {op_to_task[op]}
                 /\ (Cardinality(tasks) = 2 /\ SHARED_TASK_ID \notin tasks)
                        => device[op].task = 0

\* C10 where traverse does not hand its end ops to the neighbors function:
\* no seeded operation is resolved again and the result is that of the run
\* in the order of the operations' numbers.
C10_DeterministicEndOpsSkipped == ~fn_on_end_ops => C10_Deterministic

C10_Witness ==
    /\ pc = "done"
    /\ ~fn_on_end_ops
    /\ requeued # {}
    /\ \E op \in Ops : Cardinality({ op_to_task[r] : r \in refs_of[op] }) = 2

\* C11 as stated: a second run of assign(), over the graph in which the first
\* run left every operation with a task, changes no entry of the task map
\* and no device.
C11_Idempotent ==
    (pc \in {"forward", "backward", "done"} /\ seed.run = 2) =>
        /\ op_to_task = seed.task
        /\ device = seed.device

\* C11 where traverse does not hand its end ops to the neighbors function:
\* the second run finds a task on every operation it visits and assigns
\* nothing.
C11_IdempotentEndOpsSkipped == ~fn_on_end_ops => C11_Idempotent

C11_Witness ==
    /\ pc = "done"
    /\ seed.run = 2
    /\ ~fn_on_end_ops
    /\ \E op \in DOMAIN op_to_task : op \notin agg_grad_ops \cup apply_grad_ops

\* C12: assign() terminates: under a queue that pops every operation it
\* holds, the forward and the backward pass of the first and of the second run
\* end and assign() returns; no operation is re-added to the queue forever
\* (the operations that were re-added have their task by then, C8).
C12_Terminates == <>(pc = "done" /\ seed.run = 2)

C12_Witness ==
    /\ pc = "done"
    /\ seed.run = 1
    /\ \E op \in requeued : op \in DOMAIN op_to_task /\ op \notin DOMAIN seed.task

\* The end ops and the placement references of the pass that is running
PassEndOps == IF pc = "forward" THEN apply_grad_ops ELSE agg_grad_ops

PassReferences(op) ==
    IF pc = "forward" THEN ForwardReferences(op) ELSE BackwardReferences(op)

\* The visit of op gets as far as its placement references (lines 453, 474)
Resolving(op) ==
    /\ ~(op \in DOMAIN op_to_task /\ op \notin PassEndOps)
    /\ ~(op \in PassEndOps /\ ~fn_on_end_ops)

\* C15: the visit of an operation that finds zero placement references
\* raises at once, no task and no device being set by it, and the error is
\* raised by no other visit: not by the visit of an operation that has a
\* placement reference.
C15_NoPlacementReference ==
    [][ \A op \in worklist \ worklist' :
            /\ (Resolving(op) /\ PassReferences(op) = {}) =>
                   (pc' = "error" /\ op_to_task' = op_to_task /\ device' = device)
            /\ ~(Resolving(op) /\ PassReferences(op) = {}) => pc' # "error"
      ]_vars

C15_Witness ==
    /\ pc = "error"
    /\ op_to_task = seed.task
    /\ \E op \in agg_grad_ops \cup apply_grad_ops : op \notin DOMAIN op_to_task

\* ------------------------------------------------------------------------
\* The rewrite of the graph: in_graph_apply, between_graph_apply, add_sync_op
\* ------------------------------------------------------------------------
Consumers == 1 .. NumConsumers
Slots == 0 .. (NumSlots - 1)

\* A tensor is an output of an operation
Tensor(op, output_idx) == [op |-> op, output_idx |-> output_idx]

\* grad (grad.values of an IndexedSlices), grad.indices, grad.dense_shape and
\* the variable that var_update_op reads at UPDATE_OP_VAR_POS
ValuesOp == Op("values_op", 0)
IndicesOp == Op("indices_op", 0)
DenseShapeOp == Op("dense_shape_op", 0)
VarOp == Op("var_op", 0)
GradValues == Tensor(ValuesOp, 0)
GradIndices == Tensor(IndicesOp, 0)
GradDenseShape == Tensor(DenseShapeOp, 0)
VarTensor == Tensor(VarOp, 0)

\* The tensors a gradient of a kind is made of
GradTensors(kind) ==
    IF kind = "Tensor" THEN {GradValues}
    ELSE IF kind = "IndexedSlices" THEN {GradValues, GradIndices, GradDenseShape}
    ELSE {}

\* tensor.consumers() among the operations of the graph
TensorConsumers(ins, tensor) == { c \in DOMAIN ins : tensor \in ins[c] }

\* graph_item.control_consumers[op]: the operations that had op as a control
\* input in the graph before the rewrite
ControlConsumers(ctl, op) == { c \in DOMAIN ctl : op \in ctl[c] }

\* update_consumers(consumers, old_tensor, new_tensor)
UpdateConsumers(ins, consumers, old_tensor, new_tensor) ==
    [c \in DOMAIN ins |->
        IF c \in consumers /\ old_tensor \in ins[c]
        THEN (ins[c] \ {old_tensor}) \cup {new_tensor}
        ELSE ins[c]]

\* update_control_consumers(control_consumer_ops, old_op, new_op)
UpdateControlConsumers(ctl, control_consumer_ops, old_op, new_op) ==
    [c \in DOMAIN ctl |->
        IF c \in control_consumer_ops
        THEN (ctl[c] \ {old_op}) \cup {new_op}
        ELSE ctl[c]]

\* update_consumers on var_update_op, a consumer of the gradient
UpdateInputs(ins, old_tensor, new_tensor) ==
    IF old_tensor \in ins THEN (ins \ {old_tensor}) \cup {new_tensor} ELSE ins

\* The method called, its arguments, and what the graph made it find: the
\* output of the gradient op that grad is, whether the accumulator's dtypes
\* differ from the gradient's, the worker, whether the variable is the global
\* step, and whether a replicator of mirror variables was built
NoCall ==
    [fn |-> "none", output_idx |-> 0, cast_indices |-> FALSE, cast_shape |-> FALSE,
     worker_id |-> 0, is_global_step |-> FALSE, local_replication |-> FALSE,
     sync |-> FALSE, variable_replicator |-> FALSE]

\* The graph before the rewrite: a gradient of some kind for a target that is
\* trainable or not, operations that read the gradient's tensors or
\* control-depend on their operations or on var_update_op
RewriteInit ==
    /\ gradient \in {"Tensor", "IndexedSlices", "Other"}
    /\ target_trainable \in BOOLEAN
    /\ consumer_inputs \in [Consumers -> SUBSET GradTensors(gradient)]
    /\ control_inputs \in
          [Consumers -> SUBSET ({ t.op : t \in GradTensors(gradient) \ {GradDenseShape} }
                                   \cup {VarUpdateOp})]
    /\ update_inputs = {VarTensor} \cup (GradTensors(gradient) \ {GradDenseShape})
    /\ update_control_inputs \in SUBSET {Op("update_control_input", 0)}
    /\ call = NoCall
    /\ raised = "none"
    /\ accumulators = {}
    /\ logged = FALSE
    /\ op_deps = {}
    /\ cc_used = <<>>
    /\ agg_grad = <<>>

InitRewrite == RewriteInit /\ BarrierIdle /\ AssignIdle /\ PassIdle

\* ops.prepend_name_scope(name, replica_prefix(i))
ReplicaOp(i, name) == [scope |-> i, name |-> name]

\* A tensor name is the name of the op and the index of the output
TensorName(op_name, output_idx) == <<op_name, output_idx>>

\* get_op_name(grad_name) and int(grad_name.split(':')[1])
GetOpName(tensor_name) == tensor_name[1]
GetOutputIdx(tensor_name) == tensor_name[2]

ReplicaRangeFromOne == [k \in 1 .. NumReplicas |-> k]

\* the replicas a loop over range(self.num_replicas) visits
ReplicaRange == [k \in 1 .. NumReplicas |-> k - 1]

\* _get_aggregated_dense_grad: add_n over the output of the gradient op of
\* every replica, realdiv by the number of replicas
GetAggregatedDenseGrad(grad_name) ==
    LET grad_op_name == GetOpName(grad_name)
        output_idx == GetOutputIdx(grad_name)
        grad_ops == [k \in DOMAIN ReplicaRange |-> ReplicaOp(ReplicaRange[k], grad_op_name)]
    IN [kind |-> "Tensor",
        summands |-> [k \in DOMAIN grad_ops |-> Tensor(grad_ops[k], output_idx)],
        divisor |-> NumReplicas,
        tensor |-> Tensor(Op("AutoDist-Div", 0), 0)]

\* _get_aggregated_sparse_grad: the IndexedSlices of the take, with a cast
\* where the dtype of the accumulator's output differs
GetAggregatedSparseGrad(cast_indices, cast_shape) ==
    [kind |-> "IndexedSlices",
     indices |-> IF cast_indices
                 THEN Tensor(Op("AutoDist-Take-Grad-Cast-Indices", 0), 0)
                 ELSE Tensor(Op("AutoDist-Take-Grad", 0), 0),
     values |-> Tensor(Op("AutoDist-Take-Grad", 0), 1),
     dense_shape |-> IF cast_shape
                     THEN Tensor(Op("AutoDist-Take-Grad-Cast-Shape", 0), 0)
                     ELSE Tensor(Op("AutoDist-Take-Grad", 0), 2)]

ValuesControlConsumersAll(values_cc_ops, indices_cc_ops) ==
    values_cc_ops

\* in_graph_apply, line 83: the control consumers handed over for the values
ValuesControlConsumers(values_cc_ops, indices_cc_ops) ==
    values_cc_ops \ indices_cc_ops

\* in_graph_apply for a dense gradient
InGraphDense(output_idx) ==
    LET agg == GetAggregatedDenseGrad(TensorName("values_op", output_idx))
        c_ops == TensorConsumers(consumer_inputs, GradValues)
        cc_ops == ControlConsumers(control_inputs, ValuesOp)
    IN /\ agg_grad' = agg
       /\ consumer_inputs' = UpdateConsumers(consumer_inputs, c_ops, GradValues, agg.tensor)
       /\ control_inputs' =
              UpdateControlConsumers(control_inputs, cc_ops, ValuesOp, agg.tensor.op)
       /\ update_inputs' = UpdateInputs(update_inputs, GradValues, agg.tensor)
       /\ cc_used' = [indices |-> {}, values |-> cc_ops]
       /\ UNCHANGED <<raised, accumulators>>

\* in_graph_apply for a sparse gradient: the indices are rewired, then the
\* values
InGraphSparse(cast_indices, cast_shape) ==
    LET agg == GetAggregatedSparseGrad(cast_indices, cast_shape)
        indices_cc_ops == ControlConsumers(control_inputs, IndicesOp)
        indices_c_ops == TensorConsumers(consumer_inputs, GradIndices)
        values_cc_ops == ControlConsumers(control_inputs, ValuesOp)
        values_c_ops == TensorConsumers(consumer_inputs, GradValues)
        values_cc_used == ValuesControlConsumers(values_cc_ops, indices_cc_ops)
        ins1 == UpdateConsumers(consumer_inputs, indices_c_ops, GradIndices, agg.indices)
        ctl1 == UpdateControlConsumers(control_inputs, indices_cc_ops,
                                       IndicesOp, agg.indices.op)
    IN /\ agg_grad' = agg
       /\ accumulators' = accumulators \cup {"AutoDist-Accum"}
       /\ consumer_inputs' = UpdateConsumers(ins1, values_c_ops, GradValues, agg.values)
       /\ control_inputs' =
              UpdateControlConsumers(ctl1, values_cc_used, ValuesOp, agg.values.op)
       /\ update_inputs' =
              UpdateInputs(UpdateInputs(update_inputs, GradIndices, agg.indices),
                           GradValues, agg.values)
       /\ cc_used' = [indices |-> indices_cc_ops, values |-> values_cc_used]
       /\ UNCHANGED raised

\* in_graph_apply(old_graph_item, curr_graph_item, grad, target)
InGraphApply(output_idx, cast_indices, cast_shape) ==
    /\ call = NoCall
    /\ gradient # "Tensor" => output_idx = 0
    /\ gradient # "IndexedSlices" => (~cast_indices /\ ~cast_shape)
    /\ call' = [NoCall EXCEPT !.fn = "in_graph_apply", !.output_idx = output_idx,
                              !.cast_indices = cast_indices, !.cast_shape = cast_shape]
    /\ IF ~target_trainable
       THEN /\ raised' = "AssertionError"
            /\ UNCHANGED <<consumer_inputs, control_inputs, update_inputs, accumulators,
                           cc_used, agg_grad>>
       ELSE IF gradient = "Tensor" THEN InGraphDense(output_idx)
       ELSE IF gradient = "IndexedSlices" THEN InGraphSparse(cast_indices, cast_shape)
       ELSE /\ raised' = "RuntimeError"
            /\ UNCHANGED <<consumer_inputs, control_inputs, update_inputs, accumulators,
                           cc_used, agg_grad>>
    /\ UNCHANGED <<barrierVars, assignVars, passVars, gradient, target_trainable,
                   update_control_inputs, logged, op_deps>>

WantsReplicatorAnyKind(local_replication) == local_replication

\* _replicate_variable_to_devices: mirror variables are built only for a
\* dense gradient
WantsReplicator(local_replication) ==
    local_replication /\ gradient = "Tensor"

\* _get_accum_apply_and_agg_grad: the aggregated gradient of the take
AccumAggGrad(kind, cast_indices) ==
    IF kind = "Tensor"
    THEN [kind |-> "Tensor", tensor |-> Tensor(TakeGradOp, 0)]
    ELSE [kind |-> "IndexedSlices",
          indices |-> IF cast_indices THEN Tensor(Op("Cast", 0), 0)
                      ELSE Tensor(TakeGradOp, 0),
          values |-> Tensor(TakeGradOp, 1),
          dense_shape |-> Tensor(TakeGradOp, 2)]

\* What a part of a call leaves: the exception, the log, the accumulators, the
\* aggregated gradient, the inputs and control inputs of the consumers, the
\* inputs of var_update_op, the nodes added, the control consumers rewired
Outcome(exc, log, accs, agg, ins, ctl, upd, nodes, cc) ==
    [raised |-> exc, logged |-> log, accumulators |-> accs, agg_grad |-> agg,
     consumer_inputs |-> ins, control_inputs |-> ctl, update_inputs |-> upd,
     nodes |-> nodes, cc_used |-> cc]

SkipAccumulationNever(trainable) == FALSE

\* _get_accumulation_ops, line 368: target.op not in trainable_var_op_to_var
SkipAccumulation(trainable) == ~trainable

\* _get_accumulation_ops(graph_item, gradient, target, num_workers)
GetAccumulationOps(kind, trainable, cast_indices, ins, ctl, upd) ==
    IF SkipAccumulation(trainable)
    THEN \* logged, no accumulator, ({}, {}) returned
         Outcome("none", TRUE, {}, <<>>, ins, ctl, upd, {}, <<>>)
    ELSE IF kind = "Tensor"
    THEN LET agg == AccumAggGrad(kind, cast_indices)
             grad_consumers == TensorConsumers(ins, GradValues)
             cc_ops == ControlConsumers(ctl, ValuesOp)
         IN Outcome("none", FALSE, {"grad_accum"}, agg,
                    UpdateConsumers(ins, grad_consumers, GradValues, agg.tensor),
                    UpdateControlConsumers(ctl, cc_ops, ValuesOp, agg.tensor.op),
                    UpdateInputs(upd, GradValues, agg.tensor),
                    { Node(AccumApplyOp, {ValuesOp}), Node(TakeGradOp, {}) },
                    [indices |-> {}, values |-> cc_ops])
    ELSE IF kind = "IndexedSlices"
    THEN LET agg == AccumAggGrad(kind, cast_indices)
             indices_consumers == TensorConsumers(ins, GradIndices)
             grad_consumers == TensorConsumers(ins, GradValues)
             indices_cc_ops == ControlConsumers(ctl, IndicesOp)
             values_cc_ops == ControlConsumers(ctl, ValuesOp)
             ins1 == UpdateConsumers(ins, indices_consumers, GradIndices, agg.indices)
             ctl1 == UpdateControlConsumers(ctl, indices_cc_ops, IndicesOp, agg.indices.op)
         IN Outcome("none", FALSE, {"grad_accum"}, agg,
                    UpdateConsumers(ins1, grad_consumers, GradValues, agg.values),
                    UpdateControlConsumers(ctl1, values_cc_ops, ValuesOp, agg.values.op),
                    UpdateInputs(UpdateInputs(upd, GradIndices, agg.indices),
                                 GradValues, agg.values),
                    { Node(AccumApplyOp, {ValuesOp, IndicesOp, DenseShapeOp}),
                      Node(TakeGradOp, {}) }
                        \cup (IF cast_indices THEN { Node(Op("Cast", 0), {TakeGradOp}) }
                              ELSE {}),
                    [indices |-> indices_cc_ops, values |-> values_cc_ops])
    ELSE \* gradient.values of an object that is no IndexedSlices
         Outcome("AttributeError", FALSE, {}, <<>>, ins, ctl, upd, {}, <<>>)

\* variable_replicator.get_all_update_ops(queue_ops, worker_device): one
\* update of a mirror variable per replica, after the queue ops
MirrorVariableUpdateOps(queue_ops) ==
    { Node(Op("mirror_variable_update_op", r), queue_ops) : r \in Replicas }

\* add_sync_op: the finish_op that the control consumers are given
GlobalStepFinishOp == Op("finish_op", 1)

FinishOpOfPlain(worker_id, is_global_step) == FinishOp

FinishOpOf(worker_id, is_global_step) ==
    IF is_global_step /\ ~IsChief(worker_id) THEN GlobalStepFinishOp ELSE FinishOp

\* add_sync_op: the nodes it adds for worker_id
SyncNodes(worker_id, trainable, is_global_step, variable_replicator, upd, upd_ctl) ==
    LET queue_nodes == GetQueueOps(worker_id, IsChief(worker_id), trainable)
        mirror_nodes == MirrorVariableUpdateOps({ n.op : n \in queue_nodes })
        finish_nodes ==
            IF variable_replicator
            THEN mirror_nodes \cup { Node(FinishOp, { n.op : n \in mirror_nodes }) }
            ELSE { FinishNode(worker_id, trainable) }
        deps == {FinishOp} \cup { inp.op : inp \in upd } \cup upd_ctl
    IN queue_nodes \cup finish_nodes
         \cup (IF is_global_step /\ ~IsChief(worker_id)
               THEN { Node(GlobalStepFinishOp, deps) }
               ELSE {})

\* graph_item.control_consumers[var_update_op]: the control consumers of
\* var_update_op in the un-synchronized graph; none of the nodes that
\* add_sync_op has added is among them
SyncControlConsumers(ctl, nodes) ==
    [consumers |-> ControlConsumers(ctl, VarUpdateOp), added |-> {}]

\* add_sync_op: update_control_consumers(control_consumers[var_update_op],
\* var_update_op, finish_op), for the operations of the graph
SyncControlInputs(ctl, cc, worker_id, is_global_step) ==
    UpdateControlConsumers(ctl, cc.consumers, VarUpdateOp,
                           FinishOpOf(worker_id, is_global_step))

SyncRewireNodesLive(nodes, cc, worker_id, is_global_step) ==
    { Node(n.op, IF VarUpdateOp \in n.deps
                 THEN (n.deps \ {VarUpdateOp}) \cup {FinishOpOf(worker_id, is_global_step)}
                 ELSE n.deps) : n \in nodes }

\* the same update_control_consumers, for the nodes add_sync_op has added
SyncRewireNodes(nodes, cc, worker_id, is_global_step) ==
    { Node(n.op, IF n.op \in cc.added
                 THEN (n.deps \ {VarUpdateOp}) \cup {FinishOpOf(worker_id, is_global_step)}
                 ELSE n.deps) : n \in nodes }

\* between_graph_apply(graph_item, update_op, gradient, target)
BetweenGraphApply(worker_id, is_global_step, local_replication, sync, cast_indices, replicator_built) ==
    /\ call = NoCall
    /\ gradient # "IndexedSlices" => ~cast_indices
    /\ replicator_built => WantsReplicator(local_replication)
    /\ (WantsReplicator(local_replication) /\ target_trainable) => replicator_built
    /\ call' = [NoCall EXCEPT !.fn = "between_graph_apply", !.worker_id = worker_id,
                              !.is_global_step = is_global_step,
                              !.local_replication = local_replication,
                              !.sync = sync, !.cast_indices = cast_indices,
                              !.variable_replicator = replicator_built]
    /\ IF WantsReplicator(local_replication) /\ ~replicator_built
       THEN \* build_mirror_vars of a variable that is not in the registry
            /\ raised' = "ReplicatorError"
            /\ UNCHANGED <<logged, accumulators, agg_grad, consumer_inputs,
                           control_inputs, update_inputs, op_deps, cc_used>>
       ELSE LET acc == GetAccumulationOps(gradient, target_trainable, cast_indices,
                                          consumer_inputs, control_inputs, update_inputs)
                synced == sync /\ acc.raised = "none"
                sync_nodes == SyncNodes(worker_id, target_trainable, is_global_step,
                                        replicator_built, acc.update_inputs,
                                        update_control_inputs)
            IN /\ raised' = acc.raised
               /\ logged' = acc.logged
               /\ accumulators' = acc.accumulators
               /\ agg_grad' = acc.agg_grad
               /\ consumer_inputs' = acc.consumer_inputs
               /\ update_inputs' = acc.update_inputs
               /\ cc_used' = acc.cc_used
               /\ op_deps' =
                     acc.nodes \cup
                     (IF synced
                      THEN SyncRewireNodes(sync_nodes,
                                           SyncControlConsumers(acc.control_inputs, sync_nodes),
                                           worker_id, is_global_step)
                      ELSE {})
               /\ control_inputs' =
                     IF synced
                     THEN SyncControlInputs(acc.control_inputs,
                                            SyncControlConsumers(acc.control_inputs, sync_nodes),
                                            worker_id, is_global_step)
                     ELSE acc.control_inputs
    /\ UNCHANGED <<barrierVars, assignVars, passVars, gradient, target_trainable,
                   update_control_inputs>>

NextRewrite ==
    \/ \E output_idx \in Slots, cast_indices, cast_shape \in BOOLEAN :
          InGraphApply(output_idx, cast_indices, cast_shape)
    \/ \E worker_id \in Workers,
          is_global_step, local_replication, sync, cast_indices, replicator_built \in BOOLEAN :
          BetweenGraphApply(worker_id, is_global_step, local_replication, sync,
                            cast_indices, replicator_built)

SpecRewrite == InitRewrite /\ [][NextRewrite]_vars


\* ------------------------------------------------------------------------
\* Claims about the rewrite
\* ------------------------------------------------------------------------
InGraphDone(kind) ==
    call.fn = "in_graph_apply" /\ raised = "none" /\ gradient = kind

\* C13: the dense in-graph aggregate is the sum of exactly one summand per
\* replica, each the same output slot of the gradient operation in that
\* replica's scope, none missing and none twice, divided by the replica count.
C13_DenseAverage ==
    InGraphDone("Tensor") =>
        /\ agg_grad.kind = "Tensor"
        /\ agg_grad.divisor = NumReplicas
        /\ Len(agg_grad.summands) = NumReplicas
        /\ \A r \in Replicas :
              Cardinality({ k \in DOMAIN agg_grad.summands :
                              agg_grad.summands[k]
                                = Tensor(ReplicaOp(r, "values_op"), call.output_idx) }) = 1

C13_Witness ==
    /\ InGraphDone("Tensor")
    /\ call.output_idx = 1
    /\ Len(agg_grad.summands) = NumReplicas

\* The error in_graph_apply raises for a gradient of no valid kind
InvalidGradientKind == "RuntimeError"

\* C14: a gradient that is neither dense nor a sparse triple is rejected with
\* the invalid-gradient-kind error by in_graph_apply and by
\* between_graph_apply, whatever the target is, and nothing is built for it
\* as if it were dense or sparse.
C14_InvalidGradientKind ==
    (call.fn # "none" /\ gradient = "Other") =>
        /\ raised = InvalidGradientKind
        /\ accumulators = {}
        /\ op_deps = {}

\* between_graph_apply got as far as _get_accumulation_ops
AccumulationReached ==
    call.fn = "between_graph_apply" /\ raised # "ReplicatorError"

\* The claim C16 as it is stated: for a target that is not in the registry
\* of trainable values, in_graph_apply and between_graph_apply create no
\* accumulator, log a diagnostic and raise nothing.
C16_SoftSkipBoth ==
    (call.fn # "none" /\ ~target_trainable) =>
        (accumulators = {} /\ logged /\ raised = "none")

\* C16: for a target that is not in the registry of trainable values the
\* between-worker accumulation creates no accumulator, logs a diagnostic and
\* raises nothing, and between_graph_apply goes on to build the barrier when
\* sync is on; in_graph_apply fails its assertion and creates nothing.
C16_SoftSkip ==
    ~target_trainable =>
        /\ AccumulationReached =>
              /\ accumulators = {}
              /\ logged
              /\ raised = "none"
              /\ agg_grad = <<>>
              /\ call.sync => FinishOp \in { n.op : n \in op_deps }
        /\ call.fn = "in_graph_apply" =>
              /\ raised = "AssertionError"
              /\ accumulators = {}
              /\ ~logged

C16_Witness ==
    /\ ~target_trainable
    /\ AccumulationReached
    /\ gradient = "Tensor"
    /\ logged
    /\ call.sync
    /\ op_deps # {}

\* The graph after the rewrite, as far as the barrier reaches: the nodes
\* added, var_update_op with the producers of its inputs and its control
\* inputs, and the operations those depend on, which depend on nothing here
RewriteGraph(nodes, upd, upd_ctl) ==
    LET base == nodes \cup { Node(VarUpdateOp, { inp.op : inp \in upd } \cup upd_ctl) }
        leaves == (UNION { n.deps : n \in base }) \ { n.op : n \in base }
    IN base \cup { Node(o, {}) : o \in leaves }

\* A call of between_graph_apply with sync on that got through add_sync_op
SyncCall(c, exc) ==
    c.fn = "between_graph_apply" /\ c.sync /\ exc = "none"

\* C17: add_sync_op makes every operation that was a control consumer of
\* var_update_op depend on the done operation and no longer on var_update_op,
\* and gives the done operation to no other operation; the chief's queue
\* operations keep their dependency on var_update_op, and the done operation
\* is not among the operations it depends on.
C17_ControlConsumersRewired ==
    [][ (call = NoCall /\ SyncCall(call', raised')) =>
          LET done == FinishOpOf(call'.worker_id, call'.is_global_step)
              g == RewriteGraph(op_deps', update_inputs', update_control_inputs')
          IN /\ \A c \in Consumers :
                   /\ VarUpdateOp \notin control_inputs'[c]
                   /\ done \in control_inputs'[c] <=> VarUpdateOp \in control_inputs[c]
             /\ IsChief(call'.worker_id) =>
                   \A n \in GetQueueOps(call'.worker_id, TRUE, target_trainable) :
                       n \in op_deps' /\ VarUpdateOp \in n.deps
             /\ done \notin Closure(g, DepsOf(g, done))
      ]_vars

C17_Witness ==
    /\ SyncCall(call, raised)
    /\ IsChief(call.worker_id)
    /\ \E c \in Consumers : FinishOp \in control_inputs[c]
    /\ \E n \in op_deps : n.op = Enqueue(1) /\ VarUpdateOp \in n.deps

\* A sparse gradient has been replaced by its aggregate, by in_graph_apply or
\* by the accumulation of between_graph_apply
SparseReplaced ==
    /\ call.fn # "none"
    /\ raised = "none"
    /\ gradient = "IndexedSlices"
    /\ target_trainable

\* C18: when a sparse gradient is replaced by its aggregate, the consumers
\* of values, indices and dense_shape are rewired together: afterwards no
\* consumer reads one of the three original tensors.
C18_ThreeTensorsTogether ==
    SparseReplaced =>
        \A c \in Consumers :
            consumer_inputs[c] \cap {GradValues, GradIndices, GradDenseShape} = {}

\* in_graph_apply of a sparse gradient is the step taken
InGraphSparseStep ==
    /\ call = NoCall
    /\ call'.fn = "in_graph_apply"
    /\ raised' = "none"
    /\ gradient = "IndexedSlices"

\* The claim C19 as it is stated: the values half is given every control
\* consumer of the values operation, the indices half the control consumers
\* of the indices operation minus those, and an operation that depends on
\* both gets one new control edge.
C19_IndicesMinusValues ==
    [][ InGraphSparseStep =>
          LET indices_cc_ops == ControlConsumers(control_inputs, IndicesOp)
              values_cc_ops == ControlConsumers(control_inputs, ValuesOp)
          IN /\ cc_used'.values = values_cc_ops
             /\ cc_used'.indices = indices_cc_ops \ values_cc_ops
             /\ \A c \in indices_cc_ops \cap values_cc_ops :
                   Cardinality(control_inputs'[c] \ control_inputs[c]) = 1
      ]_vars

\* C19: in the in-graph rewiring of a sparse gradient no control consumer is
\* migrated twice: the indices half is given every control consumer of the
\* indices operation, the values half the control consumers of the values
\* operation minus those, and an operation that depends on both gets exactly
\* one new control edge, to the operation of the aggregated indices, and
\* keeps its edge to the original values operation.
C19_NoDoubleMigration ==
    [][ InGraphSparseStep =>
          LET indices_cc_ops == ControlConsumers(control_inputs, IndicesOp)
              values_cc_ops == ControlConsumers(control_inputs, ValuesOp)
          IN /\ cc_used'.indices = indices_cc_ops
             /\ cc_used'.values = values_cc_ops \ indices_cc_ops
             /\ cc_used'.indices \cap cc_used'.values = {}
             /\ \A c \in indices_cc_ops \cap values_cc_ops :
                   /\ control_inputs'[c] \ control_inputs[c] = {agg_grad'.indices.op}
                   /\ control_inputs[c] \ control_inputs'[c] = {IndicesOp}
      ]_vars

C19_Witness ==
    /\ InGraphDone("IndexedSlices")
    /\ call.cast_indices
    /\ \E c \in Consumers :
          /\ c \in cc_used.indices
          /\ ValuesOp \in control_inputs[c]
          /\ agg_grad.indices.op \in control_inputs[c]
          /\ agg_grad.values.op \notin control_inputs[c]

\* The finish operations that are control inputs of some operation
DoneOps ==
    { o \in {FinishOp, GlobalStepFinishOp} : \E c \in Consumers : o \in control_inputs[c] }

\* C20: for the global step on a worker that is not the chief, the done
\* operation groups the finish signal, the producer of every input of
\* var_update_op and every control input of var_update_op; on the chief, or
\* for any other variable, the done operation is the finish signal alone.
C20_GlobalStepRule ==
    SyncCall(call, raised) =>
        IF call.is_global_step /\ ~IsChief(call.worker_id)
        THEN /\ DoneOps \subseteq {GlobalStepFinishOp}
             /\ Node(GlobalStepFinishOp,
                     {FinishOp} \cup { inp.op : inp \in update_inputs }
                                \cup update_control_inputs) \in op_deps
             /\ \E n \in op_deps : n.op = FinishOp
        ELSE /\ DoneOps \subseteq {FinishOp}
             /\ \A n \in op_deps : n.op # GlobalStepFinishOp
             /\ \E n \in op_deps : n.op = FinishOp

C20_Witness ==
    /\ SyncCall(call, raised)
    /\ call.is_global_step
    /\ ~IsChief(call.worker_id)
    /\ target_trainable
    /\ update_control_inputs # {}
    /\ DoneOps = {GlobalStepFinishOp}

\* The mirror updates add_sync_op has added
MirrorNodes == { n \in op_deps : n.op.kind = "mirror_variable_update_op" }

\* C21: with mirror variables built, which happens for a dense gradient
\* only, the finish signal groups the mirror updates, one per replica, every
\* mirror update depends on every queue operation of the worker, and the done
\* operation depends on every mirror update; without them, as for every
\* sparse gradient, there is no mirror update and the finish signal groups
\* the queue operations alone.
C21_MirrorUpdates ==
    SyncCall(call, raised) =>
        LET queue_ops == { n.op : n \in GetQueueOps(call.worker_id, IsChief(call.worker_id),
                                                  target_trainable) }
            mirror_ops == { n.op : n \in MirrorNodes }
            g == RewriteGraph(op_deps, update_inputs, update_control_inputs)
            done == FinishOpOf(call.worker_id, call.is_global_step)
        IN /\ gradient # "Tensor" => ~call.variable_replicator
           /\ IF call.variable_replicator
              THEN /\ mirror_ops = { Op("mirror_variable_update_op", r) : r \in Replicas }
                   /\ \A n \in MirrorNodes : queue_ops \subseteq n.deps
                   /\ DepsOf(g, FinishOp) = mirror_ops
                   /\ mirror_ops \subseteq Closure(g, DepsOf(g, done))
              ELSE /\ mirror_ops = {}
                   /\ DepsOf(g, FinishOp) = queue_ops

C21_Witness ==
    /\ SyncCall(call, raised)
    /\ call.variable_replicator
    /\ target_trainable
    /\ ~IsChief(call.worker_id)
    /\ Cardinality(MirrorNodes) = NumReplicas

\* ------------------------------------------------------------------------
\* The pass over the variables: between_graph_apply for one after the other
\* ------------------------------------------------------------------------
Values == 1 .. NumValues

\* The graph before the pass: some of the variables are trainable, sync is
\* on or off, nothing has been built
PassInit ==
    /\ trainable_values \in SUBSET Values
    /\ pass_sync \in BOOLEAN
    /\ values_done = {}
    /\ var_op_to_agg_grad = {}
    /\ assigner_calls = <<>>

InitPass == PassInit /\ BarrierIdle /\ AssignIdle /\ RewriteIdle

VarOpToAggGradMerged(old, v) ==
    old \cup (IF v \in trainable_values THEN {v} ELSE {})

\* between_graph_apply, line 109: self._var_op_to_agg_grad is what
\* _get_accumulation_ops returns for this variable, an entry for it when it
\* is trainable and nothing otherwise
VarOpToAggGrad(old, v) ==
    IF v \in trainable_values THEN {v} ELSE {}

\* add_sync_op, lines 173-174: the call of _place_post_grad_agg_ops for
\* variable v, with the variables whose aggregated gradient and whose update
\* op it is given, the variables whose finish_op has been built by then and
\* the variables whose control consumers have been rewired by then
PlacePostGradAggOps(v, agg) ==
    [value |-> v,
     agg_vars |-> agg,
     apply_vars |-> IF v \in trainable_values THEN {v} ELSE {},
     finished |-> values_done \cup {v},
     rewired |-> values_done]

\* between_graph_apply(graph_item, update_op, gradient, target) for variable v
BetweenGraphApplyValue(v) ==
    /\ v \notin values_done
    /\ var_op_to_agg_grad' = VarOpToAggGrad(var_op_to_agg_grad, v)
    /\ assigner_calls' =
          IF pass_sync
          THEN Append(assigner_calls, PlacePostGradAggOps(v, var_op_to_agg_grad'))
          ELSE assigner_calls
    /\ values_done' = values_done \cup {v}
    /\ UNCHANGED <<barrierVars, assignVars, rewriteVars, trainable_values, pass_sync>>

NextPass == \E v \in Values : BetweenGraphApplyValue(v)

SpecPass == InitPass /\ [][NextPass]_vars

\* The claim C22 as it is stated: the assigner runs once, after the barrier
\* of every variable has been built and rewired, over the aggregated
\* gradients and the update ops of all trainable variables.
C22_AssignerRunsLast ==
    /\ Len(assigner_calls) <= 1
    /\ \A k \in DOMAIN assigner_calls :
          /\ assigner_calls[k].finished = Values
          /\ assigner_calls[k].agg_vars = trainable_values
          /\ assigner_calls[k].apply_vars = trainable_values
    /\ (pass_sync /\ values_done = Values) => Len(assigner_calls) = 1

\* C22: the assigner runs once for every variable, in add_sync_op of that
\* variable and so only with sync on: after the accumulation and the
\* finish_op of that variable and of the variables before it, before the
\* control consumers of that variable are rewired, and over the aggregated
\* gradient and the update op of that variable alone (over nothing when the
\* variable is not trainable).
C22_AssignerPerValue ==
    /\ ~pass_sync => assigner_calls = <<>>
    /\ pass_sync =>
          /\ { assigner_calls[k].value : k \in DOMAIN assigner_calls } = values_done
          /\ Len(assigner_calls) = Cardinality(values_done)
    /\ \A k \in DOMAIN assigner_calls :
          LET c == assigner_calls[k]
              before == { assigner_calls[j].value : j \in 1 .. (k - 1) }
          IN /\ c.agg_vars = {c.value} \cap trainable_values
             /\ c.apply_vars = {c.value} \cap trainable_values
             /\ c.finished = before \cup {c.value}
             /\ c.rewired = before

C22_Witness ==
    /\ pass_sync
    /\ values_done = Values
    /\ Cardinality(trainable_values) >= 2
    /\ Len(assigner_calls) = NumValues

\* The operations __assign_task has resolved from their references
ResolvedOps == { op \in Ops : refs_of[op] # {} }

\* C23: every operation the assigner has resolved is on the parameter
\* server's device specifier with the task field overridden: job, replica
\* and device type are those of the specifier, the task is the resolved task
\* of the operation, 0 when that is SHARED.
C23_DeviceOfResolved ==
    \A op \in ResolvedOps :
        /\ op \in DOMAIN op_to_task
        /\ device[op].job = ps_device.job
        /\ device[op].replica = ps_device.replica
        /\ device[op].device_type = ps_device.device_type
        /\ device[op].device_index = ps_device.device_index
        /\ device[op].task =
              IF op_to_task[op] = SHARED_TASK_ID THEN 0 ELSE op_to_task[op]

C23_Witness ==
    /\ pc = "done"
    /\ \E op \in ResolvedOps :
          /\ op_to_task[op] = SHARED_TASK_ID
          /\ seed.device[op].job = "worker"
          /\ device[op].job = "ps"
    /\ \E op \in ResolvedOps : op_to_task[op] = 1 /\ device[op].task # ps_device.task

\* The seeded assignment of op is what it was before the traversal, and
\* __assign_task has not resolved op
SeedKept(op) ==
    /\ op \in DOMAIN op_to_task
    /\ op_to_task[op] = seed.task[op]
    /\ device[op] = seed.device[op]
    /\ refs_of[op] = {}

\* C24: assign() changes no seeded assignment: every update op and every
\* aggregated-gradient op that had a task before the traversal has that task
\* and its device at every point of both passes, and neither pass resolves it
\* from its references, also when it is an end op of the pass.
C24_SeedKept ==
    pc # "idle" => \A op \in DOMAIN seed.task : SeedKept(op)

\* The same statement for a traverse that does not hand its end ops to
\* neighbors_fn
C24_SeedKeptEndOpsSkipped ==
    (pc # "idle" /\ ~fn_on_end_ops) => \A op \in DOMAIN seed.task : SeedKept(op)

C24_Witness ==
    /\ pc = "done"
    /\ ~fn_on_end_ops
    /\ ResolvedOps # {}
    /\ \E op \in apply_grad_ops : \E ref_op \in inputs[op] :
          ref_op \in DOMAIN op_to_task /\ op_to_task[ref_op] # op_to_task[op]

\* ------------------------------------------------------------------------
\* Claims about the execution of the rewritten graph, continued
\* ------------------------------------------------------------------------
\* C25: every apply is accepted whatever its step, and still the
\* between-worker accumulator never holds a contribution of a later step
\* than the one its next take is for, and never two of one worker; a
\* completed take has combined exactly one contribution of every worker, all
\* of the step of that take.
C25_SameStepContributions ==
    is_trainable =>
        /\ \A c \in accum : c.step = nTake
        /\ \A c, d \in accum : c.worker = d.worker => c = d
        /\ nTake > 0 =>
              /\ { c.worker : c \in lastTake } = Workers
              /\ Cardinality(lastTake) = NumWorkers
              /\ \A c \in lastTake : c.step = nTake - 1

C25_Witness ==
    /\ is_trainable
    /\ nTake = 2
    /\ { c.step : c \in lastTake } = {1}
    /\ { c.worker : c \in lastTake } = Workers
    /\ \E c \in accum : c.step = 2 /\ c.worker # 0

====
